---- MODULE Spec2Model ----
(***************************************************************************)
(* Model of the FMCSA hours-of-service trip planner                        *)
(* (trips/services/hos_service.py).                                        *)
(*                                                                         *)
(* Units.  The planner keeps two kinds of time.  Timestamps are datetimes, *)
(* which have a finite resolution: a timestamp is a whole number of clock  *)
(* ticks since midnight of the departure day, and there are TicksPerHour   *)
(* ticks in an hour (a minute is 11 ticks).  Hour quantities are floats,   *)
(* finer than the clock: they are counted in hour units, FloatPerTick of   *)
(* them to a tick.  timedelta(hours=h) rounds h to whole ticks and         *)
(* total_seconds() / 3600 turns ticks back into hour units.  Distance is   *)
(* counted in units of 1/120 mile, so that 55 mph is 2 distance units per  *)
(* hour unit; inputs are even numbers of distance units, on which          *)
(* miles / average_speed_mph is exact.                                     *)
(***************************************************************************)
EXTENDS Integers, Naturals, Sequences, FiniteSets, TLC

TicksPerHour == 660
FloatPerTick == 5
UnitsPerMile == 120
TicksPerDay == 24 * TicksPerHour
\* one hour, as a float number of hours
Hour == TicksPerHour * FloatPerTick

\* timedelta(hours=h): h rounded to the resolution of the clock, half to even
timedelta_hours(h) ==
    LET q == h \div FloatPerTick
        r == h % FloatPerTick
    IN  IF 2 * r > FloatPerTick \/ (2 * r = FloatPerTick /\ q % 2 = 1) THEN q + 1 ELSE q

\* (t1 - t0).total_seconds() / 3600
hours_between(t1, t0) == (t1 - t0) * FloatPerTick

\* ---- HOSConfig --------------------------------------------------------
\* the defaults of the dataclass
HOSConfig ==
    [cycle_hours |-> 70 * Hour,
     max_driving_hours |-> 11 * Hour,
     max_on_duty_hours |-> 14 * Hour,
     break_required_after_hours |-> 8 * Hour,
     break_duration_hours |-> Hour \div 2,
     off_duty_reset_hours |-> 10 * Hour,
     restart_hours |-> 34 * Hour,
     fuel_interval_miles |-> 1000 * UnitsPerMile,
     fuel_stop_duration_hours |-> Hour \div 2,
     pickup_duration_hours |-> 1 * Hour,
     dropoff_duration_hours |-> 1 * Hour,
     average_speed_mph |-> (55 * UnitsPerMile) \div Hour]
\* HOSService(config): a configuration with a three-hour loading time, under
\* which the on-duty window can run out before the driving hours do
LongLoadingConfig ==
    [HOSConfig EXCEPT !.pickup_duration_hours = 3 * Hour]
Configs == {HOSConfig, LongLoadingConfig}
\* HOSService(config): a configuration with a fuel interval of 250 miles,
\* under which a trip has several fuel stops
ShortTankConfig ==
    [HOSConfig EXCEPT !.fuel_interval_miles = 250 * UnitsPerMile]
\* float('inf'): larger than every counter the model can reach
Inf == 1000000000
\* the +2.0 hours of the adverse driving conditions exception
adverse_extra_hours == 2 * Hour
\* the 7.0 h and 3.0 h halves of the split sleeper pair
split_sleeper_hours == 7 * Hour
split_off_duty_hours == 3 * Hour

\* ---- bounds of the model -----------------------------------------------
\* times generate_logs is run on a returned plan
MaxRenders == 2

\* iterations of the simulation loop a run may start
MaxIter == 12

\* inputs (distance units, distance units, hour units, ticks); the distance 2
\* takes less than half a tick to drive
Distances == {0, 2, 300 * UnitsPerMile, 500 * UnitsPerMile, 700 * UnitsPerMile,
              1100 * UnitsPerMile}
PickupsOf(d) == {0, d} \cup (IF d > 100 * UnitsPerMile THEN {2, 100 * UnitsPerMile} ELSE {})
CycleUsed == {0, 60 * Hour, 69 * Hour + Hour \div 2, 70 * Hour}
Departures == {6 * TicksPerHour, 20 * TicksPerHour}

\* arguments outside their documented ranges, which a caller can pass as well
\* (the ELD view hands the request's numbers to calculate_trip_plan as they are)
AnyDistances == {-100 * UnitsPerMile, 300 * UnitsPerMile}
AnyPickups == {-1 * UnitsPerMile, 0, 400 * UnitsPerMile}
AnyCycleUsed == {-1 * Hour, 0, 71 * Hour}

VARIABLES st

vars == <<st>>

\* ---- small helpers -----------------------------------------------------
Min2(a, b) == IF a <= b THEN a ELSE b
Min3(a, b, c) == Min2(a, Min2(b, c))
Max2(a, b) == IF a >= b THEN a ELSE b

\* DutyPeriod(status, start_time, end_time, remarks)
DutyPeriod(status, start, end, remarks) ==
    [status |-> status, start_time |-> start, end_time |-> end, remarks |-> remarks]

\* DutyPeriod.duration_hours
duration_hours(p) == hours_between(p.end_time, p.start_time)

\* PlannedStop(stop_type, arrival, departure, duration, miles, day, remarks)
PlannedStop(type, arrival, dur, miles, day, remarks) ==
    [stop_type |-> type, arrival_time |-> arrival,
     departure_time |-> arrival + timedelta_hours(dur),
     duration_hours |-> dur, miles_from_start |-> miles, day_number |-> day,
     remarks |-> remarks]

\* the value the plan fields hold before calculate_trip_plan returns
NoPlan ==
    [planned_stops |-> <<>>, daily_summaries |-> <<>>, total_driving_hours |-> 0,
     total_on_duty_hours |-> 0, total_trip_days |-> 0, departure_time |-> 0,
     arrival_time |-> 0, cycle_hours_remaining |-> 0]

\* exception toggles (hos_service.py 208-211)
max_drive_hours_today(s) ==
    s.config.max_driving_hours + (IF s.adverse_conditions THEN adverse_extra_hours ELSE 0)
max_on_duty_window_today(s) ==
    s.config.max_on_duty_hours + (IF s.adverse_conditions THEN adverse_extra_hours ELSE 0)
\* the break threshold of a run that ignores short_haul_cdl
break_required_after_any_haul(s) == s.config.break_required_after_hours
\* break_required_after (line 211)
break_required_after(s) ==
    IF s.short_haul_cdl THEN Inf ELSE s.config.break_required_after_hours

\* the loop test `while current_miles < total_distance_miles`
loop_test(s) ==
    IF s.current_miles < s.total_distance_miles THEN "break" ELSE "dropoff"

\* what the loop body and the loop test read of the loop-local state: the
\* clock enters only through the time elapsed in the on-duty window
LoopState(s) ==
    <<s.current_miles, s.miles_since_fuel, s.passed_pickup, s.driving_since_break,
      s.driving_today, s.cycle_hours_used, s.current_time - s.on_duty_window_start>>

\* a loop that runs its body before the first test
first_loop_test_after_body(d) == "break"

\* the first test of `while current_miles < total_distance_miles`, with
\* current_miles = 0 (lines 175, 213)
first_loop_test(d) == IF 0 < d THEN "break" ELSE "dropoff"

\* state after the initialisation of calculate_trip_plan (lines 170-211)
InitState(cfg, d, p, c, dep, adv, sh, sp) ==
    [config |-> cfg, total_distance_miles |-> d, pickup_miles_from_start |-> p,
     current_cycle_used_hours |-> c, departure_time |-> dep,
     adverse_conditions |-> adv, short_haul_cdl |-> sh, split_sleeper |-> sp,
     current_time |-> dep, current_miles |-> 0,
     driving_since_break |-> 0, driving_today |-> 0,
     on_duty_window_start |-> dep, cycle_hours_used |-> c,
     planned_stops |-> <<>>, all_duty_periods |-> <<>>,
     current_day_number |-> 1, miles_since_fuel |-> 0,
     passed_pickup |-> FALSE, hours_on_duty |-> 0,
     iterations |-> 0, loop_top |-> <<>>, odometer_log |-> <<>>, plan |-> NoPlan,
     compliance |-> <<>>, rendered |-> <<>>,
     pc |-> first_loop_test(d)]

\* ---- stop constructors -------------------------------------------------
\* _create_break_stop
create_break_stop(config, current_time, current_miles, day_number) ==
    PlannedStop("break", current_time, config.break_duration_hours, current_miles, day_number,
                "30-minute break required after 8 hours driving")

\* _create_rest_stop
create_rest_stop(config, current_time, current_miles, day_number) ==
    PlannedStop("rest", current_time, config.off_duty_reset_hours, current_miles, day_number,
                "10-hour off-duty rest period")

\* _create_fuel_stop
create_fuel_stop(config, current_time, current_miles, day_number) ==
    PlannedStop("fuel", current_time, config.fuel_stop_duration_hours, current_miles, day_number,
                "Fuel stop")

\* _create_split_sleeper_pair
create_split_sleeper_pair(config, current_time, current_miles, day_number) ==
    LET sleeper == PlannedStop("rest", current_time, split_sleeper_hours, current_miles,
                               day_number, "Sleeper berth split period (7h)")
        offduty == PlannedStop("break", sleeper.departure_time, split_off_duty_hours,
                               current_miles, day_number, "Off-duty split period (3h)")
    IN  <<sleeper, offduty>>

\* ---- the steps of one iteration of the simulation loop -----------------
\* the test of the 30-minute break check, with > for >=
break_due_strict(s) == s.driving_since_break > break_required_after(s)

\* the test of the 30-minute break check (line 217)
break_due(s) == s.driving_since_break >= break_required_after(s)

\* 1. 30-minute break (lines 216-232)
break_check(s) ==
    IF break_due(s)
    THEN LET stop == create_break_stop(s.config, s.current_time, s.current_miles, s.current_day_number)
         IN  [s EXCEPT !.planned_stops = Append(@, stop),
                       !.all_duty_periods =
                           Append(@, DutyPeriod("off_duty", stop.arrival_time,
                                                stop.departure_time,
                                                "30-minute break (8-hour driving rule)")),
                       !.current_time = stop.departure_time,
                       !.driving_since_break = 0]
    ELSE s

\* the hours of the sleeper-berth period only
split_pair_hours_sleeper_only(pair) == pair[1].duration_hours

\* the hours the split pair takes out of the 14-hour window (lines 262, 311)
split_pair_hours(pair) == pair[1].duration_hours + pair[2].duration_hours

\* the split-sleeper branch of steps 2 and 3 (lines 237-263, 288-312)
apply_split_sleeper_pair(s) ==
    LET pair == create_split_sleeper_pair(s.config, s.current_time, s.current_miles,
                                          s.current_day_number)
    IN  [s EXCEPT !.planned_stops = @ \o pair,
                  !.all_duty_periods =
                      @ \o << DutyPeriod("sleeper_berth", pair[1].arrival_time,
                                         pair[1].departure_time,
                                         "Sleeper berth (split pair)"),
                              DutyPeriod("off_duty", pair[2].arrival_time,
                                         pair[2].departure_time,
                                         "Off duty (split pair)") >>,
                  !.current_time = pair[2].departure_time,
                  !.driving_since_break = 0,
                  !.on_duty_window_start = @ + timedelta_hours(split_pair_hours(pair))]

\* the full-rest branch of steps 2 and 3 (lines 265-282, 314-331)
apply_rest_stop(s, remarks) ==
    LET stop == create_rest_stop(s.config, s.current_time, s.current_miles, s.current_day_number)
    IN  [s EXCEPT !.planned_stops = Append(@, stop),
                  !.all_duty_periods =
                      Append(@, DutyPeriod("sleeper_berth", stop.arrival_time,
                                           stop.departure_time, remarks)),
                  !.current_time = stop.departure_time,
                  !.current_day_number = @ + 1,
                  !.driving_today = 0,
                  !.driving_since_break = 0,
                  !.on_duty_window_start = stop.departure_time]

\* 2. 11-hour driving limit (lines 234-282)
driving_limit_check(s) ==
    IF s.driving_today >= max_drive_hours_today(s)
    THEN IF s.split_sleeper
         THEN apply_split_sleeper_pair(s)
         ELSE apply_rest_stop(s, "10-hour rest (11-hour driving limit)")
    ELSE s

\* 3. 14-hour on-duty window (lines 284-331); hours_on_duty is computed
\* before the branch and is not recomputed after the rest
window_check(s) ==
    LET h == hours_between(s.current_time, s.on_duty_window_start)
        t == [s EXCEPT !.hours_on_duty = h]
    IN  IF h >= max_on_duty_window_today(s)
        THEN IF s.split_sleeper
             THEN apply_split_sleeper_pair(t)
             ELSE apply_rest_stop(t, "10-hour rest (14-hour window limit)")
        ELSE t

\* the test of the cycle check, with > for >=
cycle_limit_reached_strict(s) == s.cycle_hours_used > s.config.cycle_hours

\* the test of the cycle check (line 334)
cycle_limit_reached(s) == s.cycle_hours_used >= s.config.cycle_hours

\* the days of a restart, counting the day it ends in
restart_days_rounded_up(config) == config.restart_hours \div (24 * Hour) + 1

\* int(restart_hours // 24): the full days the restart spans
restart_days(config) == config.restart_hours \div (24 * Hour)

\* 4. 60/70-hour cycle limit, 34-hour restart (lines 333-363)
cycle_check(s) ==
    IF cycle_limit_reached(s)
    THEN LET restart_start == s.current_time
             restart_end == restart_start + timedelta_hours(s.config.restart_hours)
         IN  [s EXCEPT !.planned_stops =
                           Append(@, PlannedStop("rest", restart_start, s.config.restart_hours,
                                                 s.current_miles, s.current_day_number,
                                                 "34-hour restart per 395.3(c)")),
                       !.all_duty_periods =
                           Append(@, DutyPeriod("off_duty", restart_start, restart_end,
                                                "34-hour restart")),
                       !.current_time = restart_end,
                       !.current_day_number = @ + restart_days(s.config),
                       !.driving_today = 0,
                       !.driving_since_break = 0,
                       !.on_duty_window_start = restart_end,
                       !.cycle_hours_used = 0]
    ELSE s

\* 5. fuel stop (lines 365-382)
fuel_check(s) ==
    IF s.miles_since_fuel >= s.config.fuel_interval_miles
    THEN LET stop == create_fuel_stop(s.config, s.current_time, s.current_miles, s.current_day_number)
         IN  [s EXCEPT !.planned_stops = Append(@, stop),
                       !.all_duty_periods =
                           Append(@, DutyPeriod("on_duty_not_driving", stop.arrival_time,
                                                stop.departure_time, "Fuel stop")),
                       !.current_time = stop.departure_time,
                       !.miles_since_fuel = 0,
                       !.hours_on_duty = hours_between(stop.departure_time, s.on_duty_window_start)]
    ELSE s

\* the mile marker of the pickup stop, taken from the end of the route
pickup_stop_miles_at_destination(s) == s.total_distance_miles

\* the mile marker of the pickup stop (line 395)
pickup_stop_miles(s) == s.pickup_miles_from_start

\* 6. pickup (lines 384-410)
pickup_check(s) ==
    IF ~s.passed_pickup /\ s.current_miles >= s.pickup_miles_from_start
    THEN LET stop == PlannedStop("pickup", s.current_time, s.config.pickup_duration_hours,
                                 pickup_stop_miles(s), s.current_day_number,
                                 "Loading cargo at pickup location")
         IN  [s EXCEPT !.planned_stops = Append(@, stop),
                       !.all_duty_periods =
                           Append(@, DutyPeriod("on_duty_not_driving", stop.arrival_time,
                                                stop.departure_time,
                                                "Pickup - loading cargo")),
                       !.current_time = stop.departure_time,
                       !.hours_on_duty = hours_between(stop.departure_time, s.on_duty_window_start),
                       !.passed_pickup = TRUE]
    ELSE s

\* the time limit of a segment, without the remaining 11-hour driving time
drive_time_limit_no11h(s) ==
    Min2(break_required_after(s) - s.driving_since_break,
         max_on_duty_window_today(s) - s.hours_on_duty)

\* the time limit of a segment, without the remaining on-duty window
drive_time_limit_no14h(s) ==
    Min2(max_drive_hours_today(s) - s.driving_today,
         break_required_after(s) - s.driving_since_break)

\* time until the segment hits a limit (lines 412-422)
drive_time_limit(s) ==
    LET remaining_drive_time_11h == max_drive_hours_today(s) - s.driving_today
        remaining_drive_time_break == break_required_after(s) - s.driving_since_break
        hours_until_14h == max_on_duty_window_today(s) - s.hours_on_duty
    IN  Min3(remaining_drive_time_11h, remaining_drive_time_break, hours_until_14h)

\* a segment that is not clipped at the fuel boundary
clip_to_fuel_interval_skipped(s, m) == m

\* the fuel limit of the segment (lines 434-436)
clip_to_fuel_interval(s, m) ==
    IF (s.miles_since_fuel + m) >= s.config.fuel_interval_miles
    THEN s.config.fuel_interval_miles - s.miles_since_fuel ELSE m

\* how far the segment may go (lines 424-436)
max_miles_this_segment(s) ==
    LET m0 == drive_time_limit(s) * s.config.average_speed_mph
        m1 == IF ~s.passed_pickup /\ (s.current_miles + m0) >= s.pickup_miles_from_start
              THEN s.pickup_miles_from_start - s.current_miles ELSE m0
        m2 == IF (s.current_miles + m1) >= s.total_distance_miles
              THEN s.total_distance_miles - s.current_miles ELSE m1
    IN  clip_to_fuel_interval(s, m2)

\* the test of the drive segment, with >= for >
segment_has_miles_or_none(m) == m >= 0

\* the test of the drive segment (line 439)
segment_has_miles(m) == m > 0

\* 7. drive segment (lines 438-461)
drive_segment(s) ==
    LET m == max_miles_this_segment(s)
    IN  IF segment_has_miles(m)
        THEN LET drive_hours == m \div s.config.average_speed_mph
                 drive_end_time == s.current_time + timedelta_hours(drive_hours)
             IN  [s EXCEPT !.all_duty_periods =
                               Append(@, DutyPeriod("driving", s.current_time,
                                                    drive_end_time, "Driving")),
                           !.current_time = drive_end_time,
                           !.current_miles = @ + m,
                           !.miles_since_fuel = @ + m,
                           !.driving_today = @ + drive_hours,
                           !.driving_since_break = @ + drive_hours,
                           !.cycle_hours_used = @ + drive_hours]
        ELSE s

\* the dropoff stop appended after the loop (lines 463-486)
add_dropoff(s) ==
    LET stop == PlannedStop("dropoff", s.current_time, s.config.dropoff_duration_hours,
                            s.total_distance_miles, s.current_day_number,
                            "Unloading cargo at destination")
    IN  [s EXCEPT !.planned_stops = Append(@, stop),
                  !.all_duty_periods =
                      Append(@, DutyPeriod("on_duty_not_driving", stop.arrival_time,
                                           stop.departure_time,
                                           "Dropoff - unloading cargo")),
                  !.current_time = stop.departure_time]

\* ---- daily summaries and the returned plan -----------------------------
\* one DailyHOSSummary with nothing accumulated, numbered from 0
DailyHOSSummary_numbered_from_0(day_start, day_num) ==
    [date |-> day_start, day_number |-> day_num - 1, driving_hours |-> 0,
     on_duty_hours |-> 0, off_duty_hours |-> 0, sleeper_berth_hours |-> 0,
     miles_driven |-> 0, duty_periods |-> <<>>]

\* one DailyHOSSummary with nothing accumulated (lines 664-668)
DailyHOSSummary(day_start, day_num) ==
    [date |-> day_start, day_number |-> day_num, driving_hours |-> 0,
     on_duty_hours |-> 0, off_duty_hours |-> 0, sleeper_berth_hours |-> 0,
     miles_driven |-> 0, duty_periods |-> <<>>]

\* DailyHOSSummary.total_hours
total_hours(summary) ==
    summary.driving_hours + summary.on_duty_hours + summary.off_duty_hours
        + summary.sleeper_berth_hours

\* the body of `for period in duty_periods` (lines 670-700)
add_period(config, summary, period, day_start, day_end) ==
    IF period.end_time <= day_start \/ period.start_time >= day_end
    THEN summary
    ELSE LET overlap_start == Max2(period.start_time, day_start)
             overlap_end == Min2(period.end_time, day_end)
             hours == hours_between(overlap_end, overlap_start)
             withp == [summary EXCEPT !.duty_periods =
                           Append(@, DutyPeriod(period.status, overlap_start,
                                                overlap_end, period.remarks))]
         IN  IF hours > 0
             THEN CASE period.status = "driving" ->
                         [withp EXCEPT !.driving_hours = @ + hours,
                                       !.miles_driven = @ + hours * config.average_speed_mph]
                    [] period.status = "on_duty_not_driving" ->
                         [withp EXCEPT !.on_duty_hours = @ + hours]
                    [] period.status = "off_duty" ->
                         [withp EXCEPT !.off_duty_hours = @ + hours]
                    [] period.status = "sleeper_berth" ->
                         [withp EXCEPT !.sleeper_berth_hours = @ + hours]
             ELSE summary

RECURSIVE add_periods(_, _, _, _, _, _)
add_periods(config, summary, periods, i, day_start, day_end) ==
    IF i > Len(periods) THEN summary
    ELSE add_periods(config, add_period(config, summary, periods[i], day_start, day_end),
                     periods, i + 1, day_start, day_end)

\* a day summary left as accumulated, without the off-duty fill
fill_off_duty_skipped(summary) == summary

\* the off-duty fill of a day below 24 hours (lines 702-705)
fill_off_duty(summary) ==
    IF total_hours(summary) < 24 * Hour
    THEN [summary EXCEPT !.off_duty_hours = @ + (24 * Hour - total_hours(summary))]
    ELSE summary

\* _build_daily_summaries; start_date is the departure time, whose midnight is 0
build_daily_summaries(config, duty_periods, start_date, total_days) ==
    [day_num \in 1..total_days |->
        LET day_start == (start_date - (start_date % TicksPerDay))
                             + (day_num - 1) * TicksPerDay
            day_end == day_start + TicksPerDay
        IN  fill_off_duty(add_periods(config, DailyHOSSummary(day_start, day_num),
                                      duty_periods, 1, day_start, day_end))]

\* sum(p.duration_hours for p in periods if p.status in statuses)
RECURSIVE sum_hours(_, _, _)
sum_hours(periods, i, statuses) ==
    IF i > Len(periods) THEN 0
    ELSE (IF periods[i].status \in statuses THEN duration_hours(periods[i]) ELSE 0)
             + sum_hours(periods, i + 1, statuses)

\* the HOSPlan returned (lines 488-512)
build_plan(s) ==
    [planned_stops |-> s.planned_stops,
     daily_summaries |-> build_daily_summaries(s.config, s.all_duty_periods, s.departure_time,
                                               s.current_day_number),
     total_driving_hours |-> sum_hours(s.all_duty_periods, 1, {"driving"}),
     total_on_duty_hours |->
         sum_hours(s.all_duty_periods, 1, {"driving", "on_duty_not_driving"}),
     total_trip_days |-> s.current_day_number,
     departure_time |-> s.departure_time,
     arrival_time |-> s.current_time,
     cycle_hours_remaining |-> s.config.cycle_hours - s.cycle_hours_used]

\* ---- the compliance validator ------------------------------------------
\* the violations of a validator that allows every day the two extra hours of
\* the adverse driving conditions exception
summary_violations_with_extra_hours(config, summary) ==
    (IF summary.driving_hours > config.max_driving_hours + adverse_extra_hours
     THEN << [day_number |-> summary.day_number, limit |-> "driving"] >> ELSE <<>>)
    \o (IF (summary.driving_hours + summary.on_duty_hours)
               > config.max_on_duty_hours + adverse_extra_hours
        THEN << [day_number |-> summary.day_number, limit |-> "on_duty"] >> ELSE <<>>)

\* the violations validate_hos_compliance reports for one summary (lines
\* 720-730), each message reduced to its day number and the limit it names
summary_violations(config, summary) ==
    (IF summary.driving_hours > config.max_driving_hours
     THEN << [day_number |-> summary.day_number, limit |-> "driving"] >> ELSE <<>>)
    \o (IF (summary.driving_hours + summary.on_duty_hours) > config.max_on_duty_hours
        THEN << [day_number |-> summary.day_number, limit |-> "on_duty"] >> ELSE <<>>)

RECURSIVE plan_violations(_, _, _)
plan_violations(config, summaries, i) ==
    IF i > Len(summaries) THEN <<>>
    ELSE summary_violations(config, summaries[i]) \o plan_violations(config, summaries, i + 1)

\* validate_hos_compliance
validate_hos_compliance(config, hos_plan) ==
    LET violations == plan_violations(config, hos_plan.daily_summaries, 1)
    IN  [compliant |-> Len(violations) = 0, violations |-> violations]

\* ---- the ELD log renderer (trips/services/eld_service.py) ---------------
\* The decimal hours of an entry are rounded to 2 decimals: they are counted
\* in hundredths of an hour.  A clock string 'HH:MM' is the pair <<HH, MM>>.
TicksPerMinute == TicksPerHour \div 60

\* datetime.hour and datetime.minute
hour_of(t) == (t % TicksPerDay) \div TicksPerHour
minute_of(t) == (t % TicksPerHour) \div TicksPerMinute

\* strftime('%Y-%m-%d'): the calendar date, as days since the midnight 0
strftime_Ymd(t) == t \div TicksPerDay

\* strftime('%H:%M')
strftime_HM(t) == <<hour_of(t), minute_of(t)>>

\* hour + minute / 60, in minutes (the seconds are not read)
decimal_hour(t) == 60 * hour_of(t) + minute_of(t)

\* round(x, 2) of a decimal hour given in minutes; x is never half way
round_hour(minutes) == 100 * (minutes \div 60) + (10 * (minutes % 60) + 3) \div 6

\* round(period.duration_hours, 2); a whole number of clock ticks is never
\* half way between two hundredths
round_duration(hours) == (200 * hours + Hour) \div (2 * Hour)

\* GRID_ROWS
GRID_ROWS(status) ==
    CASE status = "off_duty" -> 1
      [] status = "sleeper_berth" -> 2
      [] status = "driving" -> 3
      [] status = "on_duty_not_driving" -> 4
      [] OTHER -> 1

\* DUTY_STATUS_DISPLAY
DUTY_STATUS_DISPLAY(status) ==
    CASE status = "off_duty" -> "Off Duty"
      [] status = "sleeper_berth" -> "Sleeper Berth"
      [] status = "driving" -> "Driving"
      [] status = "on_duty_not_driving" -> "On Duty (Not Driving)"
      [] OTHER -> status

\* ELDLogEntry
ELDLogEntry(start_time, end_time, start_hour, end_hour, duration, status, remarks) ==
    [start_time |-> start_time, end_time |-> end_time, start_hour |-> start_hour,
     end_hour |-> end_hour, duration_hours |-> duration, duty_status |-> status,
     duty_status_display |-> DUTY_STATUS_DISPLAY(status), remarks |-> remarks,
     grid_row |-> GRID_ROWS(status)]

\* the end hour of an entry, without the midnight-crossing test
end_hour_unwrapped(start_hour, end_hour) == round_hour(end_hour)

\* the end hour of an entry (lines 213-218 and 224): an end before the start
\* is the next midnight
end_hour_of_entry(start_hour, end_hour) ==
    IF end_hour < start_hour THEN 2400 ELSE round_hour(end_hour)

\* _create_log_entry
create_log_entry(period) ==
    LET start_hour == decimal_hour(period.start_time)
        end_hour == decimal_hour(period.end_time)
    IN  ELDLogEntry(strftime_HM(period.start_time), strftime_HM(period.end_time),
                    round_hour(start_hour), end_hour_of_entry(start_hour, end_hour),
                    round_duration(duration_hours(period)), period.status,
                    period.remarks)

\* entries.sort(key=lambda e: e.start_hour): a stable sort
RECURSIVE insert_sorted(_, _)
insert_sorted(sorted, e) ==
    IF sorted = <<>> THEN <<e>>
    ELSE IF sorted[Len(sorted)].start_hour <= e.start_hour THEN Append(sorted, e)
    ELSE Append(insert_sorted(SubSeq(sorted, 1, Len(sorted) - 1), e), sorted[Len(sorted)])

RECURSIVE sort_by_start_hour(_, _)
sort_by_start_hour(entries, n) ==
    IF n = 0 THEN <<>>
    ELSE insert_sorted(sort_by_start_hour(entries, n - 1), entries[n])

\* the hours at which (hour - int(hour)) * 60, a whole number of minutes in
\* exact arithmetic, comes out just below it in binary floating point
falls_short(h, c) ==
    \/ c \in {5, 30, 55, 80} /\ h \in 2..7
    \/ c \in {10, 35, 60, 85} /\ h \in 4..15
    \/ c \in {15, 40, 65, 90} /\ h \in (1..3) \cup (16..23)
    \/ c \in {20, 45} /\ h \in {1} \cup (8..23)
    \/ c \in {70, 95} /\ h \in 8..23

\* _hour_to_time_str, of a decimal hour in hundredths
hour_to_time_str(hour) ==
    LET h == hour \div 100
        c == hour % 100
        m == (c * 60) \div 100 - (IF falls_short(h, c) THEN 1 ELSE 0)
    IN  <<IF h >= 24 THEN 0 ELSE h, m>>

\* the gap entry of _fill_gaps between two decimal hours
gap_entry(from_hour, to_hour, end_time) ==
    ELDLogEntry(hour_to_time_str(from_hour), end_time, from_hour, to_hour,
                to_hour - from_hour, "off_duty", "")

\* the loop of _fill_gaps (lines 255-274): <<filled_entries, current_hour>>
RECURSIVE fill_loop(_, _)
fill_loop(entries, n) ==
    IF n = 0 THEN << <<>>, 0 >>
    ELSE LET before == fill_loop(entries, n - 1)
             entry == entries[n]
             current_hour == before[2]
             gap == IF entry.start_hour > current_hour
                    THEN << gap_entry(current_hour, entry.start_hour,
                                      hour_to_time_str(entry.start_hour)) >>
                    ELSE <<>>
         IN  << before[1] \o gap \o <<entry>>, entry.end_hour >>

\* _fill_gaps
fill_gaps(entries) ==
    IF entries = <<>>
    THEN << ELDLogEntry(<<0, 0>>, <<24, 0>>, 0, 2400, 2400, "off_duty", "") >>
    ELSE LET filled == fill_loop(entries, Len(entries))
         IN  IF filled[2] < 2400
             THEN Append(filled[1], gap_entry(filled[2], 2400, <<24, 0>>))
             ELSE filled[1]

\* sum of entry.duration_hours over the entries of the statuses S
RECURSIVE sum_durations(_, _, _)
sum_durations(entries, n, S) ==
    IF n = 0 THEN 0
    ELSE (IF entries[n].duty_status \in S THEN entries[n].duration_hours ELSE 0)
             + sum_durations(entries, n - 1, S)

\* _calculate_summary_hours
calculate_summary_hours(entries) ==
    [off_duty |-> sum_durations(entries, Len(entries), {"off_duty"}),
     sleeper_berth |-> sum_durations(entries, Len(entries), {"sleeper_berth"}),
     driving |-> sum_durations(entries, Len(entries), {"driving"}),
     on_duty_not_driving |-> sum_durations(entries, Len(entries), {"on_duty_not_driving"}),
     total |-> sum_durations(entries, Len(entries),
                             {entries[i].duty_status : i \in 1..Len(entries)})]

\* _calculate_transitions
RECURSIVE calculate_transitions(_, _)
calculate_transitions(entries, n) ==
    IF n <= 1 THEN <<>>
    ELSE calculate_transitions(entries, n - 1)
             \o (IF entries[n - 1].grid_row # entries[n].grid_row
                 THEN << [x |-> entries[n - 1].end_hour,
                          from_row |-> entries[n - 1].grid_row,
                          to_row |-> entries[n].grid_row,
                          from_status |-> entries[n - 1].duty_status,
                          to_status |-> entries[n].duty_status] >>
                 ELSE <<>>)

\* _generate_grid_data
generate_grid_data(entries) ==
    [segments |->
         [i \in 1..Len(entries) |->
             [row |-> entries[i].grid_row, start_x |-> entries[i].start_hour,
              end_x |-> entries[i].end_hour, status |-> entries[i].duty_status,
              status_display |-> entries[i].duty_status_display,
              duration |-> entries[i].duration_hours,
              start_time |-> entries[i].start_time, end_time |-> entries[i].end_time,
              remarks |-> entries[i].remarks]],
     transitions |-> calculate_transitions(entries, Len(entries)),
     hours |-> [i \in 1..25 |-> i - 1]]

\* _generate_daily_log: the ELDDailyLog of one summary
generate_daily_log(summary) ==
    LET created == [i \in 1..Len(summary.duty_periods) |->
                        create_log_entry(summary.duty_periods[i])]
        entries == fill_gaps(sort_by_start_hour(created, Len(created)))
    IN  [date |-> strftime_Ymd(summary.date), day_number |-> summary.day_number,
         entries |-> entries,
         total_hours |-> calculate_summary_hours(entries),
         grid_data |-> generate_grid_data(entries)]

\* the duty_periods list of a summary after a rendering that sorted the list
\* itself instead of the entries made from it
duty_periods_sorted_in_place(summary) ==
    LET n == Len(summary.duty_periods)
    IN  [i \in 1..n |-> summary.duty_periods[n + 1 - i]]

\* the duty_periods list of a summary after _generate_daily_log: the list is
\* read (lines 167-169, 180-185) and the sort is on the new list of entries
duty_periods_after_rendering(summary) == summary.duty_periods

\* the summaries of a plan after generate_logs
summaries_after_rendering(summaries) ==
    [i \in 1..Len(summaries) |->
        [summaries[i] EXCEPT !.duty_periods = duty_periods_after_rendering(summaries[i])]]

\* generate_logs: one ELDDailyLog per summary
generate_logs(hos_plan) ==
    [i \in 1..Len(hos_plan.daily_summaries) |->
        generate_daily_log(hos_plan.daily_summaries[i])]

\* ---- the state machine of one calculate_trip_plan run ------------------
\* history kept beside the run: the odometer at the end of each duty period
\* that the step from s to t appended
Logged(s, t) ==
    [t EXCEPT !.odometer_log =
        @ \o [i \in 1..(Len(t.all_duty_periods) - Len(s.all_duty_periods))
                 |-> t.current_miles]]

Init ==
    \E cfg \in Configs, d \in Distances, c \in CycleUsed, dep \in Departures,
       adv \in BOOLEAN, sh \in BOOLEAN, sp \in BOOLEAN :
        \E p \in PickupsOf(d) :
            st = InitState(cfg, d, p, c, dep, adv, sh, sp)

BreakCheck ==
    /\ st.pc = "break"
    /\ st.iterations < MaxIter
    /\ st' = [Logged(st, break_check(st)) EXCEPT !.pc = "limit11", !.iterations = @ + 1,
                                                 !.loop_top = LoopState(st)]

DrivingLimitCheck ==
    /\ st.pc = "limit11"
    /\ st' = [Logged(st, driving_limit_check(st)) EXCEPT !.pc = "window14"]

WindowCheck ==
    /\ st.pc = "window14"
    /\ st' = [Logged(st, window_check(st)) EXCEPT !.pc = "cycle"]

CycleCheck ==
    /\ st.pc = "cycle"
    /\ st' = [Logged(st, cycle_check(st)) EXCEPT !.pc = "fuel"]

FuelCheck ==
    /\ st.pc = "fuel"
    /\ st' = [Logged(st, fuel_check(st)) EXCEPT !.pc = "pickup"]

PickupCheck ==
    /\ st.pc = "pickup"
    /\ st' = [Logged(st, pickup_check(st)) EXCEPT !.pc = "drive"]

DriveSegment ==
    /\ st.pc = "drive"
    /\ LET t == Logged(st, drive_segment(st))
       IN  st' = [t EXCEPT !.pc = loop_test(t)]

Dropoff ==
    /\ st.pc = "dropoff"
    /\ st' = [Logged(st, add_dropoff(st)) EXCEPT !.pc = "return"]

Return ==
    /\ st.pc = "return"
    /\ st' = [st EXCEPT !.plan = build_plan(st), !.pc = "done"]

\* the caller passes the returned plan to validate_hos_compliance; compliance
\* holds the result once the call was made
ValidateHosCompliance ==
    /\ st.pc = "done"
    /\ st.compliance = <<>>
    /\ st' = [st EXCEPT !.compliance = << validate_hos_compliance(st.config, st.plan) >>]

\* the caller renders the returned plan; rendered holds the logs of each call
GenerateLogs ==
    /\ st.pc = "done"
    /\ Len(st.rendered) < MaxRenders
    /\ st' = [st EXCEPT !.rendered = Append(@, generate_logs(st.plan)),
                        !.plan.daily_summaries = summaries_after_rendering(@)]

Next ==
    \/ BreakCheck
    \/ DrivingLimitCheck
    \/ WindowCheck
    \/ CycleCheck
    \/ FuelCheck
    \/ PickupCheck
    \/ DriveSegment
    \/ Dropoff
    \/ Return
    \/ ValidateHosCompliance
    \/ GenerateLogs

Spec == Init /\ [][Next]_vars

\* runs on arguments inside and outside their documented ranges, no flags
InitAnyInput ==
    \E d \in AnyDistances, p \in AnyPickups, c \in AnyCycleUsed, dep \in Departures :
        st = InitState(HOSConfig, d, p, c, dep, FALSE, FALSE, FALSE)

SpecAnyInput == InitAnyInput /\ [][Next]_vars

\* runs of services constructed with any of the three configurations
InitAnyConfig ==
    \E cfg \in Configs \cup {ShortTankConfig}, d \in Distances, c \in CycleUsed,
       dep \in Departures, adv \in BOOLEAN, sh \in BOOLEAN, sp \in BOOLEAN :
        \E p \in PickupsOf(d) :
            st = InitState(cfg, d, p, c, dep, adv, sh, sp)

SpecAnyConfig == InitAnyConfig /\ [][Next]_vars

\* the interpreter runs the next statement of a run that has not returned
FairSpec == Spec /\ WF_vars(Next)

\* ---- reading the duty history of a run ---------------------------------
RestRemarks == {"10-hour rest (11-hour driving limit)",
                "10-hour rest (14-hour window limit)"}
RestartRemarks == {"34-hour restart"}
ResetRemarks == RestRemarks \cup RestartRemarks
OffRemarks == ResetRemarks \cup {"30-minute break (8-hour driving rule)",
                                 "Sleeper berth (split pair)", "Off duty (split pair)"}
OnDutyStatuses == {"driving", "on_duty_not_driving"}

\* hours of the statuses S in periods[1..n] after the last period remarked in R
RECURSIVE HoursAfterLast(_, _, _, _)
HoursAfterLast(periods, n, S, R) ==
    IF n = 0 THEN 0
    ELSE IF periods[n].remarks \in R THEN 0
    ELSE (IF periods[n].status \in S THEN duration_hours(periods[n]) ELSE 0)
             + HoursAfterLast(periods, n - 1, S, R)

\* hours driven in periods[1..n] after the last period remarked in R, each
\* driving period counted as the miles it covered at average_speed_mph
RECURSIVE DrivenAfterLast(_, _, _)
DrivenAfterLast(periods, n, R) ==
    IF n = 0 THEN 0
    ELSE IF periods[n].remarks \in R THEN 0
    ELSE (st.odometer_log[n] - (IF n = 1 THEN 0 ELSE st.odometer_log[n - 1]))
                 \div st.config.average_speed_mph
             + DrivenAfterLast(periods, n - 1, R)

\* end of the last period of periods[1..n] remarked in R, or dflt
RECURSIVE EndOfLast(_, _, _, _)
EndOfLast(periods, n, R, dflt) ==
    IF n = 0 THEN dflt
    ELSE IF periods[n].remarks \in R THEN periods[n].end_time
    ELSE EndOfLast(periods, n - 1, R, dflt)

HasRemark(periods, n, R) == \E i \in 1..n : periods[i].remarks \in R

StopsOfType(stops, type) == {i \in 1..Len(stops) : stops[i].stop_type = type}

Periods == st.all_duty_periods
NPeriods == Len(st.all_duty_periods)
DrivingCap == st.config.max_driving_hours + (IF st.adverse_conditions THEN 2 * Hour ELSE 0)
WindowCap == st.config.max_on_duty_hours + (IF st.adverse_conditions THEN 2 * Hour ELSE 0)
Returned == st.pc = "done"

\* ---- C1 ----------------------------------------------------------------
\* C1: for every valid input and every combination of the exception flags
\* the simulation loop terminates with the odometer at the total distance,
\* the dropoff is appended and a plan is returned.
C1_Terminates ==
    <>(Returned /\ st.current_miles = st.total_distance_miles
         /\ Len(st.plan.planned_stops) > 0
         /\ st.plan.planned_stops[Len(st.plan.planned_stops)].stop_type = "dropoff")

\* C1, as a property of finite runs: the loop is deterministic, so a loop that
\* terminates for every input never comes back to the top of the loop in the
\* loop state in which it entered the previous iteration.
C1_LoopStateNeverRepeats ==
    ~(st.pc = "break" /\ st.iterations > 0 /\ LoopState(st) = st.loop_top)

\* the runs the iteration bound cuts short are exactly runs that repeat their
\* loop state, and none of them is a run without split_sleeper
C1_OnlyRepeatingRunsReachTheBound ==
    (st.pc = "break" /\ st.iterations = MaxIter) =>
        (st.split_sleeper /\ LoopState(st) = st.loop_top)

\* ---- C2 ----------------------------------------------------------------
\* C2: without split_sleeper, the driving time between two consecutive
\* resets (departure, end of a 10-hour rest, end of a 34-hour restart) never
\* exceeds max_driving_hours (+2 h under adverse_conditions), and once the cap
\* is reached the next period is a 10-hour rest unless the trip is over.
\* Driving time is the time the miles take at average_speed_mph, before the
\* clock rounds it.
C2_DrivingCapBetweenResets ==
    (~st.split_sleeper /\ NPeriods > 0) =>
        /\ DrivenAfterLast(Periods, NPeriods, ResetRemarks) <= DrivingCap
        /\ (/\ NPeriods > 1
            /\ Periods[NPeriods - 1].status = "driving"
            /\ DrivenAfterLast(Periods, NPeriods - 1, ResetRemarks) >= DrivingCap)
           => \/ /\ Periods[NPeriods].remarks = "10-hour rest (11-hour driving limit)"
                 /\ Periods[NPeriods].status = "sleeper_berth"
                 /\ duration_hours(Periods[NPeriods]) = st.config.off_duty_reset_hours
              \/ Periods[NPeriods].remarks = "Dropoff - unloading cargo"

\* a run without split_sleeper that drove up to the cap, rested, and drives again
C2_Witness ==
    /\ ~st.split_sleeper
    /\ NPeriods > 2
    /\ Periods[NPeriods].status = "driving"
    /\ \E k \in 2..(NPeriods - 1) :
           /\ Periods[k].remarks = "10-hour rest (11-hour driving limit)"
           /\ DrivenAfterLast(Periods, k - 1, ResetRemarks) = DrivingCap

\* ---- C3 ----------------------------------------------------------------
\* C3: without split_sleeper, no driving period ends later than
\* max_on_duty_hours (+2 h under adverse_conditions) after the start of the
\* current on-duty window; the window starts at departure and restarts at the
\* end of each 10-hour rest or 34-hour restart, so pickup, fuel and break time
\* inside the window counts against it.
C3_DrivingInsideWindow ==
    (~st.split_sleeper /\ NPeriods > 0 /\ Periods[NPeriods].status = "driving") =>
        hours_between(Periods[NPeriods].end_time,
                      EndOfLast(Periods, NPeriods, ResetRemarks, st.departure_time))
            <= WindowCap

\* a driving period that ends exactly when the window runs out, with less than
\* the driving cap driven in it (the window, not the driving cap, stopped it)
C3_Witness ==
    /\ ~st.split_sleeper
    /\ NPeriods > 0
    /\ Periods[NPeriods].status = "driving"
    /\ hours_between(Periods[NPeriods].end_time,
                     EndOfLast(Periods, NPeriods, ResetRemarks, st.departure_time))
           = WindowCap
    /\ DrivenAfterLast(Periods, NPeriods, ResetRemarks) < DrivingCap
    /\ HoursAfterLast(Periods, NPeriods, {"on_duty_not_driving"}, ResetRemarks) > 0

\* ---- C4 ----------------------------------------------------------------
\* C4: without short_haul_cdl, the driving accumulated since the most recent
\* off-duty or sleeper-berth period never exceeds break_required_after_hours;
\* when it reaches the threshold with miles remaining the next period is an
\* off-duty break of break_duration_hours, matched by a break stop, and the
\* since-break counter is back to 0 before anything else is checked.
\* Driving is the time the miles take at average_speed_mph, before the clock
\* rounds it.
C4_BreakAfterThreshold ==
    (~st.short_haul_cdl /\ NPeriods > 0) =>
        /\ DrivenAfterLast(Periods, NPeriods, OffRemarks)
               <= st.config.break_required_after_hours
        /\ (/\ NPeriods > 1
            /\ Periods[NPeriods - 1].status = "driving"
            /\ DrivenAfterLast(Periods, NPeriods - 1, OffRemarks)
                   >= st.config.break_required_after_hours)
           => \/ /\ Periods[NPeriods].remarks = "30-minute break (8-hour driving rule)"
                 /\ Periods[NPeriods].status = "off_duty"
                 /\ duration_hours(Periods[NPeriods]) = st.config.break_duration_hours
                 /\ \E i \in StopsOfType(st.planned_stops, "break") :
                        /\ st.planned_stops[i].arrival_time = Periods[NPeriods].start_time
                        /\ st.planned_stops[i].duration_hours = st.config.break_duration_hours
              \/ Periods[NPeriods].remarks = "Dropoff - unloading cargo"
        /\ (st.pc = "limit11" /\ Periods[NPeriods].remarks = "30-minute break (8-hour driving rule)")
           => st.driving_since_break = 0
        /\ st.pc \in {"limit11", "window14", "cycle", "fuel", "pickup", "drive"}
           => st.driving_since_break < st.config.break_required_after_hours

\* a break was taken after exactly the threshold of driving, and driving resumed
C4_Witness ==
    /\ ~st.short_haul_cdl
    /\ NPeriods > 2
    /\ Periods[NPeriods].status = "driving"
    /\ Periods[NPeriods - 1].remarks = "30-minute break (8-hour driving rule)"
    /\ DrivenAfterLast(Periods, NPeriods - 2, OffRemarks)
           = st.config.break_required_after_hours

\* ---- C5 ----------------------------------------------------------------
\* hours the miles of period n take at average_speed_mph
DrivenIn(n) ==
    (st.odometer_log[n] - (IF n = 1 THEN 0 ELSE st.odometer_log[n - 1]))
        \div st.config.average_speed_mph

\* C5, as stated: the duty periods are contiguous and non-overlapping in the
\* order produced: the first starts at the departure time, each later one
\* starts at the end of the previous one, each has positive length, and the
\* last one of a returned plan is the dropoff, ending at plan.arrival_time.
C5_EveryPeriodPositive ==
    /\ \A i \in 1..NPeriods :
           /\ Periods[i].start_time = (IF i = 1 THEN st.departure_time
                                       ELSE Periods[i - 1].end_time)
           /\ Periods[i].end_time > Periods[i].start_time
    /\ Returned =>
           /\ NPeriods > 0
           /\ Periods[NPeriods].remarks = "Dropoff - unloading cargo"
           /\ Periods[NPeriods].end_time = st.plan.arrival_time

\* C5, amended: the duty periods are contiguous and non-overlapping in the
\* order produced: the first starts at the departure time, each later one
\* starts at the end of the previous one, none ends before it starts, and the
\* last one of a returned plan is the dropoff, ending at plan.arrival_time.
\* Every period other than driving has positive length; a driving period
\* covers a positive distance and has zero length only when that distance
\* takes less than half the resolution of the clock.  The periods reported in
\* the daily summaries of the plan all have positive length.
C5_PeriodsContiguous ==
    /\ \A i \in 1..NPeriods :
           /\ Periods[i].start_time = (IF i = 1 THEN st.departure_time
                                       ELSE Periods[i - 1].end_time)
           /\ Periods[i].end_time >= Periods[i].start_time
           /\ Periods[i].status # "driving" => Periods[i].end_time > Periods[i].start_time
           /\ Periods[i].status = "driving" =>
                  /\ DrivenIn(i) > 0
                  /\ (Periods[i].end_time = Periods[i].start_time)
                         <=> (2 * DrivenIn(i) < FloatPerTick)
    /\ Returned =>
           /\ NPeriods > 0
           /\ Periods[NPeriods].remarks = "Dropoff - unloading cargo"
           /\ Periods[NPeriods].end_time = st.plan.arrival_time
           /\ \A d \in 1..Len(st.plan.daily_summaries) :
                  \A j \in 1..Len(st.plan.daily_summaries[d].duty_periods) :
                      LET q == st.plan.daily_summaries[d].duty_periods[j]
                      IN  q.end_time > q.start_time

\* a returned plan with a driving period of zero length, driving periods of
\* positive length, and stops of several kinds between them
C5_Witness ==
    /\ Returned
    /\ NPeriods >= 6
    /\ \E i \in 1..NPeriods :
           Periods[i].status = "driving" /\ Periods[i].end_time = Periods[i].start_time
    /\ \E i \in 1..NPeriods :
           Periods[i].status = "driving" /\ Periods[i].end_time > Periods[i].start_time
    /\ \E i \in 1..NPeriods : Periods[i].status = "sleeper_berth"
    /\ \E i \in 1..NPeriods : Periods[i].status = "off_duty"

\* ---- C6 ----------------------------------------------------------------
\* C6: every DailyHOSSummary of a returned plan has driving + on_duty +
\* off_duty + sleeper_berth hours equal to exactly 24, each of them >= 0.
C6_SummariesSumTo24 ==
    Returned =>
        \A i \in 1..Len(st.plan.daily_summaries) :
            LET d == st.plan.daily_summaries[i]
            IN  /\ d.driving_hours + d.on_duty_hours + d.off_duty_hours
                       + d.sleeper_berth_hours = 24 * Hour
                /\ d.driving_hours >= 0
                /\ d.on_duty_hours >= 0
                /\ d.off_duty_hours >= 0
                /\ d.sleeper_berth_hours >= 0

\* a returned plan of several days, with a day that has driving, on-duty and
\* sleeper-berth time and still needed off-duty time to reach 24 hours
C6_Witness ==
    /\ Returned
    /\ Len(st.plan.daily_summaries) >= 2
    /\ \E i \in 1..Len(st.plan.daily_summaries) :
           LET d == st.plan.daily_summaries[i]
           IN  /\ d.driving_hours > 0
               /\ d.on_duty_hours > 0
               /\ d.sleeper_berth_hours > 0
               /\ d.off_duty_hours > 0

\* ---- C7 ----------------------------------------------------------------
\* the cycle counter of the run after periods[1..n], as the loop keeps it
CycleCounterAfter(periods, n) ==
    (IF HasRemark(periods, n, RestartRemarks) THEN 0 ELSE st.current_cycle_used_hours)
        + DrivenAfterLast(periods, n, RestartRemarks)

\* C7: no driving period begins while cycle hours used is at or above
\* cycle_hours: once the counter has reached the cap with miles remaining, a
\* 34-hour off-duty restart is inserted first, and it resets the counter to 0
\* and restarts the on-duty window and the driving counters.
C7_RestartBeforeDriving ==
    /\ st.pc \in {"fuel", "pickup", "drive"} => st.cycle_hours_used < st.config.cycle_hours
    /\ (NPeriods > 0 /\ Periods[NPeriods].status = "driving")
       => CycleCounterAfter(Periods, NPeriods - 1) < st.config.cycle_hours
    /\ (st.pc = "fuel" /\ NPeriods > 0 /\ Periods[NPeriods].remarks = "34-hour restart")
       => /\ Periods[NPeriods].status = "off_duty"
          /\ duration_hours(Periods[NPeriods]) = st.config.restart_hours
          /\ st.cycle_hours_used = 0
          /\ st.on_duty_window_start = st.current_time
          /\ st.driving_today = 0
          /\ st.driving_since_break = 0

\* driving carried the counter to the cap, a restart followed, and driving resumed
C7_Witness ==
    /\ NPeriods > 2
    /\ Periods[NPeriods].status = "driving"
    /\ \E k \in 2..(NPeriods - 1) :
           /\ Periods[k].remarks = "34-hour restart"
           /\ CycleCounterAfter(Periods, k - 1) >= st.config.cycle_hours
           /\ \E j \in 1..(k - 1) : Periods[j].status = "driving"

\* ---- C8 ----------------------------------------------------------------
\* C8: for every valid input the returned plan has cycle_hours_remaining >= 0.
C8_CycleRemainingNonNegative ==
    Returned => st.plan.cycle_hours_remaining >= 0

\* ---- C9 ----------------------------------------------------------------
\* C9: at every point of a plan, the initial cycle hours used (when no restart
\* has occurred yet) plus all on-duty time since the last 34-hour restart,
\* driving and on-duty-not-driving alike, does not exceed cycle_hours.
C9_OnDutyWithinCycle ==
    st.total_distance_miles > 0 =>
    (IF HasRemark(Periods, NPeriods, RestartRemarks) THEN 0
     ELSE st.current_cycle_used_hours)
        + HoursAfterLast(Periods, NPeriods, OnDutyStatuses, RestartRemarks)
        <= st.config.cycle_hours

\* ---- C10 ---------------------------------------------------------------
\* C10: for total distance > 0 and any pickup marker in [0, total distance],
\* the plan has exactly one pickup stop and exactly one dropoff stop, the
\* pickup precedes the dropoff, they last pickup_duration_hours and
\* dropoff_duration_hours, and the dropoff is the last stop.
C10_OnePickupOneDropoff ==
    (Returned /\ st.total_distance_miles > 0) =>
        LET stops == st.plan.planned_stops
            pickups == StopsOfType(stops, "pickup")
            dropoffs == StopsOfType(stops, "dropoff")
        IN  /\ Cardinality(pickups) = 1
            /\ Cardinality(dropoffs) = 1
            /\ \A i \in pickups : \A j \in dropoffs : i < j
            /\ \A i \in pickups : stops[i].duration_hours = st.config.pickup_duration_hours
            /\ \A j \in dropoffs : stops[j].duration_hours = st.config.dropoff_duration_hours
            /\ dropoffs = {Len(stops)}

\* ---- C11 ---------------------------------------------------------------
\* C11: the planned stops are in non-decreasing order of miles_from_start and
\* of arrival time, each stop departs no earlier than it arrives and arrives
\* no earlier than the previous stop departs, for every input and every flag
\* combination; the pickup stop carries the pickup marker and the dropoff
\* stop the total distance.
C11_StopsInOrder ==
    LET stops == st.planned_stops
    IN  /\ \A i \in 1..Len(stops) :
               /\ stops[i].departure_time >= stops[i].arrival_time
               /\ stops[i].stop_type = "pickup"
                      => stops[i].miles_from_start = st.pickup_miles_from_start
               /\ stops[i].stop_type = "dropoff"
                      => stops[i].miles_from_start = st.total_distance_miles
               /\ i > 1 =>
                      /\ stops[i].miles_from_start >= stops[i - 1].miles_from_start
                      /\ stops[i].arrival_time >= stops[i - 1].arrival_time
                      /\ stops[i].arrival_time >= stops[i - 1].departure_time
        /\ Returned => st.plan.planned_stops = stops

\* a returned plan whose pickup lies strictly between an earlier stop and a
\* later stop that is not the dropoff, in miles and in time
C11_Witness ==
    /\ Returned
    /\ \E i, j, k \in 1..Len(st.plan.planned_stops) :
           LET stops == st.plan.planned_stops
           IN  /\ i < j /\ j < k /\ k < Len(stops)
               /\ stops[j].stop_type = "pickup"
               /\ stops[i].miles_from_start < stops[j].miles_from_start
               /\ stops[j].miles_from_start < stops[k].miles_from_start
               /\ stops[i].departure_time < stops[j].arrival_time
               /\ stops[j].departure_time < stops[k].arrival_time

\* ---- C12 ---------------------------------------------------------------
\* C12: without split_sleeper and for every departure time of day, no
\* DailyHOSSummary of the plan has driving_hours above max_driving_hours
\* (+2 h under adverse_conditions).
C12_DailyDrivingWithinCap ==
    (Returned /\ st.total_distance_miles > 0 /\ ~st.split_sleeper) =>
        \A i \in 1..Len(st.plan.daily_summaries) :
            st.plan.daily_summaries[i].driving_hours <= DrivingCap

\* ---- C13 ---------------------------------------------------------------
\* C13: for every valid input planned with no exception flags, and for every
\* departure time, validate_hos_compliance applied to the returned plan
\* reports compliant = TRUE with an empty list of violations.
C13_PlansValidateCompliant ==
    (/\ st.compliance # <<>>
     /\ st.total_distance_miles > 0
     /\ ~st.adverse_conditions /\ ~st.short_haul_cdl /\ ~st.split_sleeper)
    => /\ st.compliance[1].compliant
       /\ st.compliance[1].violations = <<>>

\* ---- C14 ---------------------------------------------------------------
\* the calendar day (1 = the departure date) on which the instant t falls
CalendarDay(t) == (t \div TicksPerDay) - (st.departure_time \div TicksPerDay) + 1

\* C14: the plan has exactly one DailyHOSSummary for each calendar day from
\* the departure date through the arrival date: summary i is dated on the
\* i-th calendar day, every calendar day on which some duty period of the
\* trip falls has a summary, and no summary is dated after the arrival date.
C14_OneSummaryPerCalendarDay ==
    (Returned /\ st.total_distance_miles > 0) =>
        LET summaries == st.plan.daily_summaries
        IN  /\ \A i \in 1..Len(summaries) : CalendarDay(summaries[i].date) = i
            /\ \A k \in 1..NPeriods :
                   Periods[k].end_time > Periods[k].start_time =>
                       /\ CalendarDay(Periods[k].start_time) <= Len(summaries)
                       /\ CalendarDay(Periods[k].end_time - 1) <= Len(summaries)
            /\ \A i \in 1..Len(summaries) :
                   CalendarDay(summaries[i].date) <= CalendarDay(st.plan.arrival_time)

\* ---- C15 ---------------------------------------------------------------
\* the logs of the first rendering of the returned plan
Logs == st.rendered[1]
Rendered == Len(st.rendered) > 0

\* C15: in every rendered day the entries, after gap filling, are sorted by
\* start hour, do not overlap and chain exactly: the first starts at hour 0,
\* each starts at the end hour of the previous one, no entry ends before it
\* starts, and the last ends at hour 24; also on a day wholly covered by a
\* single duty period.
C15_EntriesChain ==
    Rendered =>
        \A d \in 1..Len(Logs) :
            LET entries == Logs[d].entries
                n == Len(entries)
            IN  /\ n > 0
                /\ entries[1].start_hour = 0
                /\ entries[n].end_hour = 2400
                /\ \A i \in 1..n : entries[i].start_hour <= entries[i].end_hour
                /\ \A i \in 2..n :
                       /\ entries[i - 1].start_hour <= entries[i].start_hour
                       /\ entries[i].start_hour = entries[i - 1].end_hour

\* a rendered plan with a day wholly covered by one duty period, rendered as
\* that period from hour 0 to hour 0 and a gap entry from 0 to 24, and a day
\* of several periods with a gap before the first
C15_Witness ==
    /\ Rendered
    /\ \E d \in 1..Len(Logs) :
           /\ Len(st.plan.daily_summaries[d].duty_periods) = 1
           /\ duration_hours(st.plan.daily_summaries[d].duty_periods[1]) = 24 * Hour
           /\ Len(Logs[d].entries) = 2
           /\ Logs[d].entries[1].end_hour = 0
           /\ Logs[d].entries[2].remarks = ""
    /\ \E d \in 1..Len(Logs) :
           /\ Len(Logs[d].entries) >= 4
           /\ Logs[d].entries[1].remarks = ""

\* ---- C16 ---------------------------------------------------------------
\* C16: for every rendered day the off_duty, sleeper_berth, driving and
\* on_duty_not_driving totals add up to the total key, and the total is 24
\* hours within the rounding of the entries to two decimals (one hundredth
\* of an hour per entry).
C16_TotalsAddTo24 ==
    (Rendered /\ st.total_distance_miles > 0) =>
        \A d \in 1..Len(Logs) :
            LET totals == Logs[d].total_hours
                tolerance == Len(Logs[d].entries)
            IN  /\ totals.off_duty + totals.sleeper_berth + totals.driving
                       + totals.on_duty_not_driving = totals.total
                /\ totals.total >= 2400 - tolerance
                /\ totals.total <= 2400 + tolerance

\* ---- C17 ---------------------------------------------------------------
\* the arguments of the run are outside the documented ranges
InvalidInput ==
    \/ st.total_distance_miles < 0
    \/ st.pickup_miles_from_start < 0
    \/ st.pickup_miles_from_start > st.total_distance_miles
    \/ st.current_cycle_used_hours < 0
    \/ st.current_cycle_used_hours > st.config.cycle_hours

\* C17: a run with a negative total distance, a pickup marker outside
\* [0, total distance] or cycle hours used outside [0, cycle_hours] is rejected
\* before any simulation step: it records no stop and no duty period and
\* returns no plan.
C17_InvalidInputsRejected ==
    InvalidInput =>
        /\ st.planned_stops = <<>>
        /\ st.all_duty_periods = <<>>
        /\ ~Returned

\* ---- C18 ---------------------------------------------------------------
\* the drive step of an iteration that changed nothing since the top of the
\* loop finds no distance to drive, with the odometer short of the total: the
\* next iteration will find the same
StuckIteration ==
    /\ st.pc = "drive"
    /\ st.current_miles < st.total_distance_miles
    /\ max_miles_this_segment(st) <= 0
    /\ LoopState(st) = st.loop_top

\* C18: the run never loops on a stuck schedule: an iteration that computes
\* a non-positive drivable distance with the odometer short of the total
\* distance and no mileage progress possible ends the run with a
\* scheduling-inconsistency error; it does not start another iteration.
C18_StuckIterationAborts ==
    [][StuckIteration => st'.pc # "break"]_vars

\* ---- C19 ---------------------------------------------------------------
\* C19: the plan has total_trip_days summaries, numbered 1..n and dated on
\* consecutive days from the departure date, and generate_logs returns one
\* log per summary, in the same order, with the summary's date and
\* day_number and at least one entry.
C19_OneLogPerSummary ==
    /\ Returned =>
           LET summaries == st.plan.daily_summaries
           IN  /\ Len(summaries) = st.plan.total_trip_days
               /\ \A i \in 1..Len(summaries) :
                      /\ summaries[i].day_number = i
                      /\ summaries[i].date % TicksPerDay = 0
                      /\ summaries[i].date \div TicksPerDay
                             = (st.departure_time \div TicksPerDay) + (i - 1)
    /\ \A k \in 1..Len(st.rendered) :
           /\ Len(st.rendered[k]) = Len(st.plan.daily_summaries)
           /\ \A i \in 1..Len(st.rendered[k]) :
                  /\ st.rendered[k][i].day_number = st.plan.daily_summaries[i].day_number
                  /\ st.rendered[k][i].date * TicksPerDay = st.plan.daily_summaries[i].date
                  /\ Len(st.rendered[k][i].entries) >= 1

\* a rendered plan of at least three days
C19_Witness ==
    /\ Rendered
    /\ Len(Logs) >= 3
    /\ st.plan.total_trip_days = Len(Logs)
    /\ Logs[3].day_number = 3

C21_ZeroDistance ==
    st.total_distance_miles = 0 =>
        /\ st.iterations = 0
        /\ st.pc \in {"dropoff", "return", "done"}
        /\ Returned =>
               /\ Cardinality(StopsOfType(st.plan.planned_stops, "dropoff")) = 1
               /\ StopsOfType(st.plan.planned_stops, "rest") = {}
               /\ StopsOfType(st.plan.planned_stops, "break") = {}
               /\ StopsOfType(st.plan.planned_stops, "fuel") = {}
               /\ st.plan.total_trip_days = 1
               /\ st.plan.total_driving_hours = 0
               /\ st.plan.arrival_time
                      = st.plan.departure_time
                            + timedelta_hours(st.config.dropoff_duration_hours)

\* a returned plan for distance 0 with the cycle used up and all flags set
C21_Witness ==
    /\ Returned
    /\ st.total_distance_miles = 0
    /\ st.current_cycle_used_hours = st.config.cycle_hours
    /\ st.adverse_conditions /\ st.short_haul_cdl /\ st.split_sleeper
    /\ Len(st.plan.planned_stops) = 1

\* ---- C22 ---------------------------------------------------------------
\* a clock string that strptime('%H:%M') accepts: hour 00..23, minute 00..59
ParsesAsClockTime(clock) == clock[1] \in 0..23 /\ clock[2] \in 0..59

\* C22: every rendered entry, the off-duty gap entries and the whole-day
\* entry of an empty day included, has a start_time and an end_time with the
\* hour in 00..23 and the minute in 00..59, so that the '%H:%M' parse of the
\* persistence step succeeds for every entry of every rendered day.
C22_ClockStringsParse ==
    Rendered =>
        \A d \in 1..Len(Logs) :
            \A i \in 1..Len(Logs[d].entries) :
                /\ ParsesAsClockTime(Logs[d].entries[i].start_time)
                /\ ParsesAsClockTime(Logs[d].entries[i].end_time)

\* ---- C23 ---------------------------------------------------------------
\* Two calculate_trip_plan calls on one HOSService instance.  Under
\* SpecTwoRuns st is the service: self.config, the arguments of the two
\* calls, and the local variables of each call (pc = "idle" before the call).
\* Every step of a call reads self.config from the service.

\* the number of calls in flight on the service
NumRuns == 2

\* the arguments of the calls: <<distance, pickup, cycle used, departure,
\* adverse_conditions, short_haul_cdl, split_sleeper>>
RunArgs ==
    { <<300 * UnitsPerMile, 0, 0, 6 * TicksPerHour, FALSE, FALSE, FALSE>>,
      <<700 * UnitsPerMile, 100 * UnitsPerMile, 60 * Hour, 20 * TicksPerHour,
        TRUE, FALSE, FALSE>>,
      <<700 * UnitsPerMile, 0, 70 * Hour, 6 * TicksPerHour, FALSE, TRUE, FALSE>>,
      <<500 * UnitsPerMile, 100 * UnitsPerMile, 0, 20 * TicksPerHour,
        FALSE, FALSE, TRUE>> }

\* the local variables of a call at its first statement
CallState(config, a) == InitState(config, a[1], a[2], a[3], a[4], a[5], a[6], a[7])

\* a service whose calls store the limits of the exception toggles in
\* self.config
config_with_toggles_stored(config, adverse_conditions, short_haul_cdl) ==
    [config EXCEPT !.max_driving_hours =
                       @ + (IF adverse_conditions THEN adverse_extra_hours ELSE 0),
                   !.max_on_duty_hours =
                       @ + (IF adverse_conditions THEN adverse_extra_hours ELSE 0),
                   !.break_required_after_hours =
                       IF short_haul_cdl THEN Inf ELSE @]

\* self.config after the initialisation of a call (lines 170-211): the
\* limits of the exception toggles are local variables (208-211), and
\* __init__ (142) is the only assignment to self.config
config_after_call(config, adverse_conditions, short_haul_cdl) == config

\* one step of a call: the statement block at s.pc (the blocks of the
\* actions of Spec)
run_step(s) ==
    CASE s.pc = "break" ->
             [Logged(s, break_check(s)) EXCEPT !.pc = "limit11", !.iterations = @ + 1,
                                               !.loop_top = LoopState(s)]
      [] s.pc = "limit11" -> [Logged(s, driving_limit_check(s)) EXCEPT !.pc = "window14"]
      [] s.pc = "window14" -> [Logged(s, window_check(s)) EXCEPT !.pc = "cycle"]
      [] s.pc = "cycle" -> [Logged(s, cycle_check(s)) EXCEPT !.pc = "fuel"]
      [] s.pc = "fuel" -> [Logged(s, fuel_check(s)) EXCEPT !.pc = "pickup"]
      [] s.pc = "pickup" -> [Logged(s, pickup_check(s)) EXCEPT !.pc = "drive"]
      [] s.pc = "drive" -> LET t == Logged(s, drive_segment(s))
                           IN  [t EXCEPT !.pc = loop_test(t)]
      [] s.pc = "dropoff" -> [Logged(s, add_dropoff(s)) EXCEPT !.pc = "return"]
      [] s.pc = "return" -> [s EXCEPT !.plan = build_plan(s), !.pc = "done"]

\* the plan a call returns when no other call runs on the service
RECURSIVE plan_alone(_)
plan_alone(s) == IF s.pc = "done" THEN s.plan ELSE plan_alone(run_step(s))

InitTwoRuns ==
    \E args \in [1..NumRuns -> RunArgs] :
        st = [config |-> HOSConfig, args |-> args,
              runs |-> [i \in 1..NumRuns |-> [pc |-> "idle"]]]

\* a request thread enters calculate_trip_plan and runs its initialisation
CallRun(i) ==
    /\ st.runs[i].pc = "idle"
    /\ LET a == st.args[i]
           config == config_after_call(st.config, a[5], a[6])
       IN  st' = [st EXCEPT !.config = config, !.runs[i] = CallState(config, a)]

\* the thread of call i runs its next statement block of the loop
StepRun(i) ==
    /\ st.runs[i].pc \notin {"idle", "return", "done"}
    /\ LET t == run_step([st.runs[i] EXCEPT !.config = st.config])
       IN  st' = [st EXCEPT !.config = t.config, !.runs[i] = t]

\* call i builds its HOSPlan and returns
ReturnRun(i) ==
    /\ st.runs[i].pc = "return"
    /\ LET t == run_step([st.runs[i] EXCEPT !.config = st.config])
       IN  st' = [st EXCEPT !.config = t.config, !.runs[i] = t]

NextTwoRuns ==
    \/ \E i \in 1..NumRuns : CallRun(i)
    \/ \E i \in 1..NumRuns : StepRun(i)
    \/ \E i \in 1..NumRuns : ReturnRun(i)

SpecTwoRuns == InitTwoRuns /\ [][NextTwoRuns]_vars

SplitCapStep ==
    /\ st.split_sleeper
    /\ \/ /\ st.pc = "limit11" /\ st'.pc = "window14"
          /\ st.driving_today >= max_drive_hours_today(st)
       \/ /\ st.pc = "window14" /\ st'.pc = "cycle"
          /\ hours_between(st.current_time, st.on_duty_window_start)
                 >= max_on_duty_window_today(st)

\* C24: with split_sleeper set, a driving-cap or window check that finds its
\* cap reached inserts, instead of a 10-hour rest, a 7-hour sleeper-berth
\* period followed immediately by a 3-hour off-duty period at the same mile
\* marker, advances the on-duty window start by exactly 10 hours, and leaves
\* driving_today and the day counter unchanged.
C24_SplitPairInsteadOfRest ==
    [][ SplitCapStep =>
          LET n == Len(st.all_duty_periods)
              k == Len(st.planned_stops)
          IN  /\ Len(st'.all_duty_periods) = n + 2
              /\ Len(st'.planned_stops) = k + 2
              /\ LET sleeper == st'.all_duty_periods[n + 1]
                     offduty == st'.all_duty_periods[n + 2]
                     stop1 == st'.planned_stops[k + 1]
                     stop2 == st'.planned_stops[k + 2]
                 IN  /\ sleeper.status = "sleeper_berth"
                     /\ sleeper.start_time = st.current_time
                     /\ sleeper.end_time = sleeper.start_time + 7 * TicksPerHour
                     /\ offduty.status = "off_duty"
                     /\ offduty.start_time = sleeper.end_time
                     /\ offduty.end_time = offduty.start_time + 3 * TicksPerHour
                     /\ stop1.duration_hours = 7 * Hour
                     /\ stop2.duration_hours = 3 * Hour
                     /\ stop1.arrival_time = sleeper.start_time
                     /\ stop2.arrival_time = stop1.departure_time
                     /\ stop1.miles_from_start = st.current_miles
                     /\ stop2.miles_from_start = st.current_miles
                     /\ st'.current_time = offduty.end_time
              /\ st'.current_miles = st.current_miles
              /\ st'.on_duty_window_start = st.on_duty_window_start + 10 * TicksPerHour
              /\ st'.driving_today = st.driving_today
              /\ st'.current_day_number = st.current_day_number ]_vars

\* a split pair was just inserted at the driving cap, after driving
C24_Witness ==
    /\ st.split_sleeper
    /\ st.pc = "window14"
    /\ st.driving_today >= max_drive_hours_today(st)
    /\ st.current_miles > 0
    /\ Len(st.all_duty_periods) >= 3
    /\ st.all_duty_periods[Len(st.all_duty_periods)].remarks = "Off duty (split pair)"
    /\ st.on_duty_window_start > st.departure_time

\* a split pair was just inserted by the window check
C24_WindowWitness ==
    /\ st.split_sleeper
    /\ st.pc = "cycle"
    /\ st.hours_on_duty >= max_on_duty_window_today(st)
    /\ st.all_duty_periods[Len(st.all_duty_periods)].remarks = "Off duty (split pair)"

\* ---- C25 ---------------------------------------------------------------
\* the bounds a drive segment has besides the break threshold: the miles of
\* the remaining driving hours and of the remaining window, and the miles to
\* the pickup marker, to the fuel boundary and to the destination
SegmentBoundsWithoutBreak ==
    { (max_drive_hours_today(st) - st.driving_today) * st.config.average_speed_mph,
      (max_on_duty_window_today(st) - st.hours_on_duty) * st.config.average_speed_mph,
      st.pickup_miles_from_start - st.current_miles,
      st.config.fuel_interval_miles - st.miles_since_fuel,
      st.total_distance_miles - st.current_miles }

\* C25: with short_haul_cdl set and split_sleeper not set no break stop is
\* ever inserted, whatever the distance, and the break threshold never limits
\* a drive segment: the segment is bounded by the driving cap, the window
\* cap, the pickup marker, the fuel boundary or the total distance.
C25_ShortHaulNoBreak ==
    (st.short_haul_cdl /\ ~st.split_sleeper) =>
        /\ StopsOfType(st.planned_stops, "break") = {}
        /\ ~HasRemark(Periods, NPeriods, {"30-minute break (8-hour driving rule)"})
        /\ st.pc = "drive" =>
               /\ break_required_after(st) - st.driving_since_break > drive_time_limit(st)
               /\ max_miles_this_segment(st) \in SegmentBoundsWithoutBreak

\* a returned short-haul plan with a single driving period of more than the
\* 8 hours after which a break is required otherwise
C25_Witness ==
    /\ Returned
    /\ st.short_haul_cdl /\ ~st.split_sleeper
    /\ \E n \in 1..NPeriods :
           /\ Periods[n].status = "driving"
           /\ duration_hours(Periods[n]) > st.config.break_required_after_hours

\* ---- C26 ---------------------------------------------------------------
\* the odometer when period n was appended
OdometerAt(n) == st.odometer_log[n]

\* miles the odometer advanced during period n
MilesOf(n) == st.odometer_log[n] - (IF n = 1 THEN 0 ELSE st.odometer_log[n - 1])

RECURSIVE SumMiles(_, _)
SumMiles(n, S) ==
    IF n = 0 THEN 0
    ELSE (IF Periods[n].status \in S THEN MilesOf(n) ELSE 0) + SumMiles(n - 1, S)

\* the fuel stops of the plan so far, in order
FuelStops == SelectSeq(st.planned_stops, LAMBDA stop : stop.stop_type = "fuel")

\* C26: no driving period carries the odometer past the pickup marker before
\* the pickup stop is recorded, past fuel_interval_miles since the last fuel
\* stop or the start, or past the total distance; the pickup stop is inserted
\* with the odometer exactly at the pickup marker, the k-th fuel stop lies at
\* k times fuel_interval_miles, and the miles of the driving periods of a
\* returned plan add up to the total distance.
C26_SegmentsClipped ==
    /\ st.current_miles <= st.total_distance_miles
    /\ ~st.passed_pickup => st.current_miles <= st.pickup_miles_from_start
    /\ st.miles_since_fuel <= st.config.fuel_interval_miles
    /\ \A n \in 1..NPeriods :
           /\ Periods[n].remarks = "Pickup - loading cargo"
                  => OdometerAt(n) = st.pickup_miles_from_start
           /\ Periods[n].status # "driving" => MilesOf(n) = 0
    /\ \A k \in 1..Len(FuelStops) :
           FuelStops[k].miles_from_start = k * st.config.fuel_interval_miles
    /\ Returned =>
           SumMiles(NPeriods, {"driving"}) = st.total_distance_miles

\* a returned plan with three fuel stops and a pickup stop recorded after a
\* driving period that ended at the pickup marker
C26_Witness ==
    /\ Returned
    /\ Len(FuelStops) >= 3
    /\ st.pickup_miles_from_start > 0
    /\ st.pickup_miles_from_start < st.total_distance_miles
    /\ \E n \in 2..NPeriods :
           /\ Periods[n].remarks = "Pickup - loading cargo"
           /\ Periods[n - 1].status = "driving"

\* ---- C27 ---------------------------------------------------------------
\* number of the periods of periods[1..n] remarked in R
RECURSIVE CountRemarked(_, _, _)
CountRemarked(periods, n, R) ==
    IF n = 0 THEN 0
    ELSE (IF periods[n].remarks \in R THEN 1 ELSE 0) + CountRemarked(periods, n - 1, R)

\* the day counter as the claim computes it from the rests and restarts
DaysFromRests ==
    1 + CountRemarked(Periods, NPeriods, RestRemarks)
      + (st.config.restart_hours \div (24 * Hour))
            * CountRemarked(Periods, NPeriods, RestartRemarks)

\* C27: the day counter is 1 plus the number of full 10-hour rests plus
\* floor(restart_hours / 24) for each 34-hour restart, whatever breaks, fuel
\* stops, pickup, split-sleeper pairs and midnight crossings occur; the
\* day_number tags of the stops are non-decreasing along the stop list, and
\* total_trip_days of a returned plan is this counter and the tag of the
\* dropoff stop.
C27_DayCounterTracksRests ==
    /\ st.current_day_number = DaysFromRests
    /\ \A i \in 1..Len(st.planned_stops) :
           /\ st.planned_stops[i].day_number <= st.current_day_number
           /\ i > 1 => st.planned_stops[i - 1].day_number <= st.planned_stops[i].day_number
    /\ Returned =>
           /\ st.plan.total_trip_days = DaysFromRests
           /\ LET stops == st.plan.planned_stops
              IN  /\ stops[Len(stops)].stop_type = "dropoff"
                  /\ stops[Len(stops)].day_number = st.plan.total_trip_days

\* a returned plan with a full rest, a restart and a break, whose clock
\* crossed a number of midnights other than the days the counter advanced
C27_Witness ==
    /\ Returned
    /\ HasRemark(Periods, NPeriods, RestRemarks)
    /\ HasRemark(Periods, NPeriods, RestartRemarks)
    /\ StopsOfType(st.plan.planned_stops, "break") # {}
    /\ CalendarDay(st.plan.arrival_time) - CalendarDay(st.plan.departure_time)
           # st.plan.total_trip_days - 1

\* a split-sleeper run after its pair and a midnight, still on day 1
C27_SplitWitness ==
    /\ HasRemark(Periods, NPeriods, {"Sleeper berth (split pair)"})
    /\ CalendarDay(st.current_time) > CalendarDay(st.departure_time)
    /\ st.current_day_number = 1

\* ---- C28 ---------------------------------------------------------------
\* the validator reported a violation of the given limit for the day
Reported(day_number, limit) ==
    \E k \in 1..Len(st.compliance[1].violations) :
        st.compliance[1].violations[k] = [day_number |-> day_number, limit |-> limit]

\* what the validator reported agrees with the base limits of the config
ReportMatchesBaseLimits ==
    st.compliance # <<>> =>
        /\ \A i \in 1..Len(st.plan.daily_summaries) :
               LET summary == st.plan.daily_summaries[i]
               IN  /\ Reported(summary.day_number, "driving")
                          <=> summary.driving_hours > st.config.max_driving_hours
                   /\ Reported(summary.day_number, "on_duty")
                          <=> (summary.driving_hours + summary.on_duty_hours)
                                  > st.config.max_on_duty_hours
        /\ \A k \in 1..Len(st.compliance[1].violations) :
               \E i \in 1..Len(st.plan.daily_summaries) :
                   st.compliance[1].violations[k].day_number
                       = st.plan.daily_summaries[i].day_number
        /\ st.compliance[1].compliant <=> st.compliance[1].violations = <<>>

\* C28: validate_hos_compliance reports a driving violation for a day exactly
\* when the day's driving_hours exceed the base max_driving_hours and an
\* on-duty violation exactly when driving_hours + on_duty_hours exceed the
\* base max_on_duty_hours, whatever flags the plan was built with; compliant
\* is TRUE exactly when there is no violation; after the call the plan is
\* still the plan calculate_trip_plan built.
C28_ValidatorUsesBaseLimits ==
    /\ ReportMatchesBaseLimits
    /\ st.compliance # <<>> => st.plan = build_plan(st)

\* a plan built with adverse_conditions that drives more than the base cap,
\* within the cap of the exception, in one day and is reported non-compliant
C28_Witness ==
    /\ st.compliance # <<>>
    /\ st.adverse_conditions
    /\ ~st.compliance[1].compliant
    /\ \E i \in 1..Len(st.plan.daily_summaries) :
           /\ st.plan.daily_summaries[i].driving_hours > st.config.max_driving_hours
           /\ st.plan.daily_summaries[i].driving_hours
                  <= st.config.max_driving_hours + adverse_extra_hours
           /\ Reported(st.plan.daily_summaries[i].day_number, "driving")

\* ---- C29 ---------------------------------------------------------------
\* sums over the daily summaries of a plan
RECURSIVE SumDriving(_, _)
SumDriving(summaries, n) ==
    IF n = 0 THEN 0 ELSE summaries[n].driving_hours + SumDriving(summaries, n - 1)

RECURSIVE SumOnDuty(_, _)
SumOnDuty(summaries, n) ==
    IF n = 0 THEN 0
    ELSE summaries[n].driving_hours + summaries[n].on_duty_hours
             + SumOnDuty(summaries, n - 1)

RECURSIVE SumMilesDriven(_, _)
SumMilesDriven(summaries, n) ==
    IF n = 0 THEN 0 ELSE summaries[n].miles_driven + SumMilesDriven(summaries, n - 1)

\* C29: for every valid input and every departure time of day, also for
\* trips that cross midnight without a rest stop, the driving_hours of the
\* daily summaries add up to plan.total_driving_hours, their driving_hours +
\* on_duty_hours to plan.total_on_duty_hours, and their miles_driven to the
\* total distance.
C29_NoDutyTimeLost ==
    Returned =>
        LET summaries == st.plan.daily_summaries
            n == Len(summaries)
        IN  /\ SumDriving(summaries, n) = st.plan.total_driving_hours
            /\ SumOnDuty(summaries, n) = st.plan.total_on_duty_hours
            /\ SumMilesDriven(summaries, n) = st.total_distance_miles

\* ---- C30 ---------------------------------------------------------------
\* every duty period of the summary starts and ends on a whole minute
OnWholeMinutes(summary) ==
    \A i \in 1..Len(summary.duty_periods) :
        /\ summary.duty_periods[i].start_time % TicksPerMinute = 0
        /\ summary.duty_periods[i].end_time % TicksPerMinute = 0

\* a rendered total (hundredths of an hour) equals a summary total (hour
\* units) within the rounding of n entries to two decimals
SameHours(rendered_total, summary_hours, n) ==
    /\ Hour * rendered_total <= 100 * summary_hours + Hour * n
    /\ Hour * rendered_total >= 100 * summary_hours - Hour * n

\* C30: for every daily summary whose duty periods lie on whole-minute
\* boundaries the rendered log of the day has off_duty, sleeper_berth,
\* driving and on_duty_not_driving totals equal to the off_duty_hours,
\* sleeper_berth_hours, driving_hours and on_duty_hours of the summary, within
\* the rounding of the entries to two decimals.
C30_RendererAgreesWithAggregator ==
    Rendered =>
        \A d \in 1..Len(Logs) :
            LET summary == st.plan.daily_summaries[d]
                totals == Logs[d].total_hours
                n == Len(Logs[d].entries)
            IN  OnWholeMinutes(summary) =>
                    /\ SameHours(totals.off_duty, summary.off_duty_hours, n)
                    /\ SameHours(totals.sleeper_berth, summary.sleeper_berth_hours, n)
                    /\ SameHours(totals.driving, summary.driving_hours, n)
                    /\ SameHours(totals.on_duty_not_driving, summary.on_duty_hours, n)

====
